---- MODULE Spec2Model ----
(***************************************************************************)
(* A model of mcp-gitingest: the GitIngester class of src/src/ingest.js    *)
(* (URL parsing, the fetch cycle with its two recursive traversals, the    *)
(* file extractor) and the CallTool handler of src/src/index.js.           *)
(*                                                                         *)
(* A JavaScript string is a sequence of one-character strings, so that     *)
(* concatenation, searching, trimming and splitting are computed on the    *)
(* characters as the code computes them.  A character outside ASCII is one *)
(* token named after its code point ("<U+1F4C1>").  Positions are 0-based  *)
(* as in JavaScript, and -1 means "not found".                             *)
(***************************************************************************)
EXTENDS Integers, Sequences, FiniteSets, TLC

(***************************************************************************)
(* JavaScript values                                                       *)
(***************************************************************************)

\* null, for a field that holds null or a string.
NULL == <<"<null>">>

\* JavaScript truthiness of a null-or-string value: null and '' are falsy.
Truthy(v) == v # NULL /\ v # <<>>

Min(S) == CHOOSE x \in S : \A y \in S : x <= y

Max(S) == -Min({-x : x \in S})

\* The first and the last of a set of positions, -1 when there is none.
First(S) == IF S = {} THEN -1 ELSE Min(S)

Last(S) == IF S = {} THEN -1 ELSE Max(S)

\* c.repeat(n)
Rep(c, n) == [i \in 1..n |-> c]

\* s.substring(a, b): negative arguments count as 0, arguments past the end as
\* the length, and the two are swapped when a > b.
Substring(s, a, b) ==
    LET Clamp(x) == IF x < 0 THEN 0 ELSE IF x > Len(s) THEN Len(s) ELSE x
    IN SubSeq(s, Min({Clamp(a), Clamp(b)}) + 1, Max({Clamp(a), Clamp(b)}))

\* s.substring(a)
SubstringFrom(s, a) == Substring(s, a, Len(s))

\* s.startsWith(pat, i)
StartsWithAt(s, pat, i) ==
    /\ i >= 0
    /\ i + Len(pat) <= Len(s)
    /\ \A k \in 1..Len(pat) : s[i + k] = pat[k]

\* s.indexOf(pat, from) for a non-empty pat
IndexOfFrom(s, pat, from) ==
    First({i \in from..(Len(s) - Len(pat)) :
              /\ s[i + 1] = pat[1]
              /\ s[i + Len(pat)] = pat[Len(pat)]
              /\ StartsWithAt(s, pat, i)})

\* s.includes(pat)
Includes(s, pat) == IndexOfFrom(s, pat, 0) # -1

\* s.lastIndexOf(c) for one character c
LastIndexOf(s, c) == Last({i \in 0..(Len(s) - 1) : s[i + 1] = c})

\* s.endsWith(pat)
EndsWith(s, pat) == StartsWithAt(s, pat, Len(s) - Len(pat))

\* The characters String.prototype.trim removes (those the model's texts use).
Whitespace == {" ", "\n", "\t", "\r"}

\* s.trim()
Trim(s) ==
    LET leading ==
            CHOOSE k \in 0..Len(s) :
                /\ k = Len(s) \/ s[k + 1] \notin Whitespace
                /\ \A j \in 1..k : s[j] \in Whitespace
        trailing ==
            CHOOSE k \in 0..Len(s) :
                /\ k = Len(s) \/ s[Len(s) - k] \notin Whitespace
                /\ \A j \in 0..(k - 1) : s[Len(s) - j] \in Whitespace
    IN SubSeq(s, leading + 1, Len(s) - trailing)

\* s.split('/'): the segments between the slashes, empty ones included.
RECURSIVE Split(_)
Split(s) ==
    LET SplitAt(i) ==
            IF i = -1 THEN <<s>>
            ELSE <<Substring(s, 0, i)>> \o Split(SubstringFrom(s, i + 1))
    IN SplitAt(IndexOfFrom(s, <<"/">>, 0))

\* s.split('/').pop()
Basename(s) == SubstringFrom(s, LastIndexOf(s, "/") + 1)

\* The printable ASCII characters, code 32 (space) to code 126 (~); the grave
\* accent, code 96, is written as a token.
Ascii ==
    <<" ", "!", "\"", "#", "$", "%", "&", "'", "(", ")", "*", "+", ",", "-", ".", "/",
      "0", "1", "2", "3", "4", "5", "6", "7", "8", "9", ":", ";", "<", "=", ">", "?",
      "@", "A", "B", "C", "D", "E", "F", "G", "H", "I", "J", "K", "L", "M", "N", "O",
      "P", "Q", "R", "S", "T", "U", "V", "W", "X", "Y", "Z", "[", "\\", "]", "^", "_",
      "<U+0060>", "a", "b", "c", "d", "e", "f", "g", "h", "i", "j", "k", "l", "m", "n", "o",
      "p", "q", "r", "s", "t", "u", "v", "w", "x", "y", "z", "{", "|", "}", "~">>

\* The UTF-16 code unit of a character (s.charCodeAt).
CharCode(c) ==
    IF c = "\n" THEN 10
    ELSE IF c = "\t" THEN 9
    ELSE IF c = "\r" THEN 13
    ELSE 31 + (CHOOSE i \in 1..Len(Ascii) : Ascii[i] = c)

\* String.fromCharCode for a byte; a byte that is no ASCII text decodes to the
\* replacement character.
FromCharCode(b) ==
    IF b = 10 THEN "\n"
    ELSE IF b = 9 THEN "\t"
    ELSE IF b = 13 THEN "\r"
    ELSE IF b >= 32 /\ b <= 126 THEN Ascii[b - 31]
    ELSE "<U+FFFD>"

\* c.toLowerCase() for one character
LowerChar(c) ==
    LET code == CharCode(c)
    IN IF c \notin {"\n", "\t", "\r"} /\ code >= 65 /\ code <= 90
       THEN FromCharCode(code + 32) ELSE c

\* s.toLowerCase()
ToLowerCase(s) == [i \in 1..Len(s) |-> LowerChar(s[i])]

DigitChars == <<"0", "1", "2", "3", "4", "5", "6", "7", "8", "9">>

\* `${n}` for a non-negative integer n
RECURSIVE NumToText(_)
NumToText(n) ==
    IF n < 10 THEN <<DigitChars[n + 1]>>
    ELSE NumToText(n \div 10) \o <<DigitChars[(n % 10) + 1]>>

\* The number a string of digits writes.
RECURSIVE TextToNum(_)
TextToNum(s) ==
    IF s = <<>> THEN 0
    ELSE 10 * TextToNum(SubSeq(s, 1, Len(s) - 1)) + (CharCode(s[Len(s)]) - 48)

(***************************************************************************)
(* Base64: the remote sends a file's body base64-encoded, in lines of 60   *)
(* characters, and the serializer decodes it with Buffer.from(.., 'base64')*)
(***************************************************************************)

Base64Alphabet ==
    <<"A", "B", "C", "D", "E", "F", "G", "H", "I", "J", "K", "L", "M", "N", "O", "P",
      "Q", "R", "S", "T", "U", "V", "W", "X", "Y", "Z", "a", "b", "c", "d", "e", "f",
      "g", "h", "i", "j", "k", "l", "m", "n", "o", "p", "q", "r", "s", "t", "u", "v",
      "w", "x", "y", "z", "0", "1", "2", "3", "4", "5", "6", "7", "8", "9", "+", "/">>

Base64Chars == {Base64Alphabet[i] : i \in 1..Len(Base64Alphabet)}

Base64Value(c) == (CHOOSE i \in 1..Len(Base64Alphabet) : Base64Alphabet[i] = c) - 1

\* The line length of the remote's base64 text.
Base64LineLength == 60

\* What the remote puts in data.content for a file whose text is `text`: the
\* base64 of its bytes, '=' padded, a line break after every 60 characters.
Base64Encode(text) ==
    LET n == Len(text)
        groups == (n + 2) \div 3
        Byte(j) == IF j < n THEN CharCode(text[j + 1]) ELSE 0
        Triple(g) == Byte(3 * g) * 65536 + Byte(3 * g + 1) * 256 + Byte(3 * g + 2)
        Digit(k) ==
            LET g == k \div 4
                r == k % 4
                v == CASE r = 0 -> Triple(g) \div 262144
                       [] r = 1 -> (Triple(g) \div 4096) % 64
                       [] r = 2 -> (Triple(g) \div 64) % 64
                       [] OTHER -> Triple(g) % 64
            IN IF (r = 2 /\ 3 * g + 1 >= n) \/ (r = 3 /\ 3 * g + 2 >= n)
               THEN "=" ELSE Base64Alphabet[v + 1]
        lines == (4 * groups + Base64LineLength - 1) \div Base64LineLength
        total == 4 * groups + lines
        At(p) == IF p % (Base64LineLength + 1) = Base64LineLength \/ p = total - 1
                 THEN "\n"
                 ELSE Digit(p - (p \div (Base64LineLength + 1)))
    IN [p \in 1..total |-> At(p - 1)]

\* Buffer.from(enc, 'base64').toString('utf-8'): characters outside the base64
\* alphabet (line breaks, padding) are skipped, every four digits give three bytes.
Base64Decode(enc) ==
    LET data == SelectSeq(enc, LAMBDA c : c \in Base64Chars)
        n == Len(data)
        nBytes == (n * 6) \div 8
        V(k) == IF k <= n THEN Base64Value(data[k]) ELSE 0
        Byte(j) ==
            LET g == j \div 3
                r == j % 3
            IN CASE r = 0 -> V(4 * g + 1) * 4 + V(4 * g + 2) \div 16
                 [] r = 1 -> (V(4 * g + 2) % 16) * 16 + V(4 * g + 3) \div 4
                 [] OTHER -> (V(4 * g + 3) % 4) * 64 + V(4 * g + 4)
    IN [j \in 1..nBytes |-> FromCharCode(Byte(j - 1))]

(***************************************************************************)
(* String.prototype.localeCompare                                          *)
(***************************************************************************)

\* The root collation's order of the ASCII characters: punctuation, symbols,
\* digits, letters; a letter's case is not part of its primary weight.
CollationOrder ==
    <<" ", "_", "-", ",", ";", ":", "!", "?", ".", "'", "\"", "(", ")", "[", "]", "{",
      "}", "@", "*", "/", "\\", "&", "#", "%", "<U+0060>", "^", "+", "<", "=", ">", "|",
      "~", "$", "0", "1", "2", "3", "4", "5", "6", "7", "8", "9", "a", "b", "c", "d",
      "e", "f", "g", "h", "i", "j", "k", "l", "m", "n", "o", "p", "q", "r", "s", "t",
      "u", "v", "w", "x", "y", "z">>

PrimaryWeight(c) ==
    CHOOSE i \in 1..Len(CollationOrder) : CollationOrder[i] = LowerChar(c)

\* The sign of the comparison of two sequences of integers, element by element,
\* a proper prefix first.
CompareSeq(x, y) ==
    LET Sign(diff) ==
            IF diff # -1 THEN (IF x[diff] < y[diff] THEN -1 ELSE 1)
            ELSE IF Len(x) < Len(y) THEN -1
            ELSE IF Len(x) > Len(y) THEN 1
            ELSE 0
    IN Sign(First({i \in 1..Min({Len(x), Len(y)}) : x[i] # y[i]}))

\* The order of the UTF-16 code units (a < b on strings).
CodeUnitCompare(a, b) ==
    CompareSeq([i \in 1..Len(a) |-> CharCode(a[i])],
               [i \in 1..Len(b) |-> CharCode(b[i])])

\* a.localeCompare(b): the primary weights decide; when they are all equal the
\* first character that differs in case decides, lower case first.
LocaleCompare(a, b) ==
    LET Sign(primary, diff) ==
            IF primary # 0 THEN primary
            ELSE IF diff = -1 THEN 0
            ELSE IF a[diff] = LowerChar(a[diff]) THEN -1
            ELSE 1
    IN Sign(CompareSeq([i \in 1..Len(a) |-> PrimaryWeight(a[i])],
                       [i \in 1..Len(b) |-> PrimaryWeight(b[i])]),
            First({i \in 1..Len(a) : a[i] # b[i]}))

(***************************************************************************)
(* GitIngester: the texts it writes                                        *)
(***************************************************************************)

\* '='.repeat(50)
HeaderWidth == 50

\* item.size > 1000000
MaxFileSize == 1000000

HeaderRule == Rep("=", HeaderWidth)

FilePrefix == <<"F", "i", "l", "e", ":", " ">>

\* The three header lines of a section, written by _generateContent (for a
\* binary file, a decoded file and a failed file) and by _getFilesContent.
FileHeader(path) ==
    HeaderRule \o <<"\n">> \o FilePrefix \o path \o <<"\n">> \o HeaderRule \o <<"\n">>

ContentNotAvailable ==
    <<"C", "o", "n", "t", "e", "n", "t", " ", "n", "o", "t", " ", "a", "v", "a", "i",
      "l", "a", "b", "l", "e">>

TreeNotAvailable ==
    <<"T", "r", "e", "e", " ", "s", "t", "r", "u", "c", "t", "u", "r", "e", " ", "n",
      "o", "t", " ", "a", "v", "a", "i", "l", "a", "b", "l", "e">>

SummaryNotAvailable ==
    <<"S", "u", "m", "m", "a", "r", "y", " ", "n", "o", "t", " ", "a", "v", "a", "i",
      "l", "a", "b", "l", "e">>

NoneFound ==
    <<"N", "o", "n", "e", " ", "o", "f", " ", "t", "h", "e", " ", "r", "e", "q", "u",
      "e", "s", "t", "e", "d", " ", "f", "i", "l", "e", "s", " ", "w", "e", "r", "e",
      " ", "f", "o", "u", "n", "d">>

InvalidUrl ==
    <<"I", "n", "v", "a", "l", "i", "d", " ", "G", "i", "t", "H", "u", "b", " ", "U",
      "R", "L", " ", "f", "o", "r", "m", "a", "t">>

FetchFailedPrefix ==
    <<"F", "a", "i", "l", "e", "d", " ", "t", "o", " ", "f", "e", "t", "c", "h", " ",
      "r", "e", "p", "o", "s", "i", "t", "o", "r", "y", " ", "d", "a", "t", "a", ":",
      " ">>

\* `[Binary or large file: ${item.size} bytes]\n\n`
BinaryPlaceholder(size) ==
    <<"[", "B", "i", "n", "a", "r", "y", " ", "o", "r", " ", "l", "a", "r", "g", "e",
      " ", "f", "i", "l", "e", ":", " ">> \o NumToText(size)
        \o <<" ", "b", "y", "t", "e", "s", "]", "\n", "\n">>

\* `[Error loading file: ${error.message}]\n\n`
ErrorPlaceholder(message) ==
    <<"[", "E", "r", "r", "o", "r", " ", "l", "o", "a", "d", "i", "n", "g", " ", "f",
      "i", "l", "e", ":", " ">> \o message \o <<"]", "\n", "\n">>

\* The tree's icons, each one token.
FolderIcon == "<U+1F4C1>"

FileIcon == "<U+1F4C4>"

WarningIcon == "<U+26A0><U+FE0F>"

\* '  '.repeat(path.split('/').filter(Boolean).length), or '' for the root
Indent(path) ==
    IF path = <<>> THEN <<>>
    ELSE LET segments == SelectSeq(Split(path), LAMBDA seg : seg # <<>>)
         IN [i \in 1..(2 * Len(segments)) |-> " "]

\* path ? `${path}/${item.name}` : item.name
ItemPath(path, name) == IF path = <<>> THEN name ELSE path \o <<"/">> \o name

FolderLine(path, name) ==
    Indent(path) \o <<FolderIcon, " ">> \o name \o <<"/", "\n">>

FileLine(path, name) == Indent(path) \o <<FileIcon, " ">> \o name \o <<"\n">>

\* WarningLine at the indent of the directory's own line.
WarningLineAtDirectory(path) ==
    Indent(path) \o <<WarningIcon>>
        \o <<" ", "E", "r", "r", "o", "r", " ", "l", "o", "a", "d", "i", "n", "g", " ",
             "d", "i", "r", "e", "c", "t", "o", "r", "y", " ", "c", "o", "n", "t", "e",
             "n", "t", "s", "\n">>

WarningLine(path) ==
    Indent(path) \o <<" ", " ", WarningIcon>>
        \o <<" ", "E", "r", "r", "o", "r", " ", "l", "o", "a", "d", "i", "n", "g", " ",
             "d", "i", "r", "e", "c", "t", "o", "r", "y", " ", "c", "o", "n", "t", "e",
             "n", "t", "s", "\n">>

(***************************************************************************)
(* GitIngester._isBinaryFile and the sort of _generateTree                 *)
(***************************************************************************)

binaryExtensions ==
    { <<".", "p", "n", "g">>, <<".", "j", "p", "g">>, <<".", "j", "p", "e", "g">>,
      <<".", "g", "i", "f">>, <<".", "b", "m", "p">>, <<".", "i", "c", "o">>,
      <<".", "w", "e", "b", "p">>,
      <<".", "m", "p", "3">>, <<".", "m", "p", "4">>, <<".", "w", "a", "v">>,
      <<".", "o", "g", "g">>, <<".", "a", "v", "i">>, <<".", "m", "o", "v">>,
      <<".", "f", "l", "v">>,
      <<".", "z", "i", "p">>, <<".", "t", "a", "r">>, <<".", "g", "z">>,
      <<".", "r", "a", "r">>, <<".", "7", "z">>,
      <<".", "e", "x", "e">>, <<".", "d", "l", "l">>, <<".", "s", "o">>,
      <<".", "d", "y", "l", "i", "b">>,
      <<".", "p", "d", "f">>, <<".", "d", "o", "c">>, <<".", "d", "o", "c", "x">>,
      <<".", "x", "l", "s">>, <<".", "x", "l", "s", "x">>, <<".", "p", "p", "t">>,
      <<".", "p", "p", "t", "x">> }

\* filename.substring(filename.lastIndexOf('.')).toLowerCase(): without a dot
\* lastIndexOf is -1 and the extension is the whole name.
Extension(filename) ==
    ToLowerCase(SubstringFrom(filename, LastIndexOf(filename, ".")))

IsBinaryFile(filename) == Extension(filename) \in binaryExtensions

\* SkipsBody with a file of exactly the limit skipped too.
SkipsBodyFromLimit(item) == IsBinaryFile(item.name) \/ item.size >= MaxFileSize

\* this._isBinaryFile(item.name) || item.size > 1000000
SkipsBody(item) == IsBinaryFile(item.name) \/ item.size > MaxFileSize

\* The comparator of the sort: directories first, then by localeCompare.
CompareItems(a, b) ==
    IF a.type = "dir" /\ b.type # "dir" THEN -1
    ELSE IF a.type # "dir" /\ b.type = "dir" THEN 1
    ELSE LocaleCompare(a.name, b.name)

\* One step of a stable sort: x goes before the first item that sorts after it.
InsertSorted(sorted, x) ==
    LET At(k) == SubSeq(sorted, 1, k - 1) \o <<x>> \o SubSeq(sorted, k, Len(sorted))
        Place(after) == At(IF after = -1 THEN Len(sorted) + 1 ELSE after)
    IN Place(First({i \in 1..Len(sorted) : CompareItems(sorted[i], x) > 0}))

\* [...contents].sort(comparator); Array.prototype.sort is stable.
RECURSIVE SortContents(_)
SortContents(contents) ==
    IF contents = <<>> THEN <<>>
    ELSE InsertSorted(SortContents(SubSeq(contents, 1, Len(contents) - 1)),
                      contents[Len(contents)])

(***************************************************************************)
(* GitIngester._getFilesContent                                            *)
(***************************************************************************)

\* The regular expression /={50}\nFile: ([^\n]+)\n={50}/ tried at position i:
\* <<>> when it does not match there, else one record holding the match's
\* length and its group 1.  [^\n]+ runs to the end of the line, which must not
\* be empty, and the next line must start with fifty '='.
HeaderMatchAt(s, i) ==
    LET open == HeaderRule \o <<"\n">> \o FilePrefix
        Match(lineEnd) ==
            IF /\ StartsWithAt(s, open, i)
               /\ lineEnd > i + Len(open)
               /\ StartsWithAt(s, HeaderRule, lineEnd + 1)
            THEN <<[index |-> i,
                    length |-> lineEnd + 1 + HeaderWidth - i,
                    name |-> Substring(s, i + Len(open), lineEnd)]>>
            ELSE <<>>
    IN Match(IndexOfFrom(s, <<"\n">>, i + Len(open)))

\* Every position where the pattern matches.
HeaderMatches(s) ==
    {i \in 0..(Len(s) - HeaderWidth - 1) :
        /\ s[i + HeaderWidth + 1] = "\n"
        /\ s[i + 1] = "="
        /\ HeaderMatchAt(s, i) # <<>>}

\* Every position where '='.repeat(50) + '\nFile:' occurs.
HeaderStarts(s) ==
    {i \in 0..(Len(s) - HeaderWidth - 6) :
        /\ s[i + HeaderWidth + 1] = "\n"
        /\ s[i + 1] = "="
        /\ StartsWithAt(s, HeaderRule \o <<"\n", "F", "i", "l", "e", ":">>, i)}

\* pattern.exec(contentStr) with pattern.lastIndex = lastIndex: the leftmost
\* match at or after lastIndex, <<>> for null.  matches is HeaderMatches(s).
Exec(s, matches, lastIndex) ==
    LET MatchAt(i) == IF i = -1 THEN <<>> ELSE HeaderMatchAt(s, i)
    IN MatchAt(First({i \in matches : i >= lastIndex}))

\* The while loop over pattern.exec: one record per match, with the section's
\* trimmed name and trimmed body.
RECURSIVE Sections(_, _, _, _)
Sections(contentStr, matches, starts, lastIndex) ==
    LET Section(filename, startPos, nextMatch) ==
            [filename |-> filename,
             fileContent |->
                 Trim(Substring(contentStr, startPos,
                                IF nextMatch # -1 THEN nextMatch ELSE Len(contentStr)))]
        From(match, startPos) ==
            <<Section(Trim(match.name), startPos,
                      First({i \in starts : i >= startPos}))>>
                \o Sections(contentStr, matches, starts, startPos)
        Loop(found) ==
            IF found = <<>> THEN <<>>
            ELSE From(found[1], found[1].index + found[1].length)
    IN Loop(Exec(contentStr, matches, lastIndex))

\* path === filename || basename === filename || path.endsWith('/' + filename)
PathMatches(path, filename) ==
    \/ path = filename
    \/ Basename(path) = filename
    \/ EndsWith(path, <<"/">> \o filename)

\* result[path] after the loop: the body of the last section that matches
\* path, null when none does.
ResultFor(sections, path) ==
    LET Body(k) == IF k = -1 THEN NULL ELSE sections[k].fileContent
    IN Body(Last({k \in 1..Len(sections) : PathMatches(path, sections[k].filename)}))

\* A property name that is an array index: a canonical decimal below 2^32 - 1.
\* Every canonical decimal of at most nine digits is one; the model's paths
\* have no name of ten digits.
IsArrayIndex(key) ==
    /\ Len(key) >= 1
    /\ Len(key) <= 9
    /\ \A i \in 1..Len(key) : key[i] \in {DigitChars[d] : d \in 1..10}
    /\ (Len(key) = 1 \/ key[1] # "0")

\* The keys of `result` in the order Object.entries gives them: the array
\* indices in ascending numeric order, then the other keys in the order they
\* were first assigned.
ObjectKeys(filePaths) ==
    LET first == {i \in 1..Len(filePaths) :
                     \A j \in 1..(i - 1) : filePaths[j] # filePaths[i]}
        ints == {i \in first : IsArrayIndex(filePaths[i])}
        strs == first \ ints
        Rank(i) ==
            IF i \in ints
            THEN Cardinality({j \in ints :
                     TextToNum(filePaths[j]) <= TextToNum(filePaths[i])})
            ELSE Cardinality(ints) + Cardinality({j \in strs : j <= i})
    IN [r \in 1..Cardinality(first) |->
           filePaths[CHOOSE i \in first : Rank(i) = r]]

\* The loop that concatenates the found sections.
RECURSIVE Concatenate(_, _, _)
Concatenate(sections, keys, concatenated) ==
    LET Added(path, content) ==
            IF content # NULL
            THEN (IF Truthy(concatenated)
                  THEN concatenated \o <<"\n", "\n">> ELSE concatenated)
                 \o FileHeader(path) \o content
            ELSE concatenated
    IN IF keys = <<>> THEN concatenated
       ELSE Concatenate(sections, SubSeq(keys, 2, Len(keys)),
                        Added(keys[1], ResultFor(sections, keys[1])))

\* _getFilesContent(filePaths) on an instance whose content field is `content`
GetFilesContent(content, filePaths) ==
    LET Or(concatenated) == IF Truthy(concatenated) THEN concatenated ELSE NoneFound
    IN IF ~Truthy(content) THEN ContentNotAvailable
       ELSE Or(Concatenate(Sections(content, HeaderMatches(content),
                                    HeaderStarts(content), 0),
                           ObjectKeys(filePaths), <<>>))

\* The filePaths of a call of getContent without an argument (null).
NoArgument == <<NULL>>

\* getContent(filePaths)
GetContent(content, filePaths) ==
    IF filePaths = NoArgument
    THEN (IF Truthy(content) THEN content ELSE ContentNotAvailable)
    ELSE GetFilesContent(content, filePaths)

\* getTree()
GetTree(tree) == IF Truthy(tree) THEN tree ELSE TreeNotAvailable

(***************************************************************************)
(* GitIngester: the constructor and the summary                            *)
(***************************************************************************)

\* UrlMatch with a second group that runs to the end of the URL.
UrlMatchToEnd(url) ==
    LET lit == <<"g", "i", "t", "h", "u", "b", ".", "c", "o", "m", "/">>
        Groups(i, ownerEnd) ==
            IF /\ StartsWithAt(url, lit, i)
               /\ ownerEnd > i + Len(lit)
               /\ ownerEnd + 1 < Len(url)
            THEN <<[owner |-> Substring(url, i + Len(lit), ownerEnd),
                    repo |-> Substring(url, ownerEnd + 1, Len(url))]>>
            ELSE <<>>
        MatchAt(i) ==
            IF i = -1 THEN <<>> ELSE Groups(i, IndexOfFrom(url, <<"/">>, i + Len(lit)))
    IN MatchAt(First({i \in 0..(Len(url) - 1) : url[i + 1] = "g" /\ MatchAt(i) # <<>>}))

\* url.match(/github\.com\/([^\/]+)\/([^\/]+)/): the leftmost place where
\* "github.com/" is followed by a non-empty run without '/', a '/', and another
\* non-empty run without '/'.  <<>> for null, else one record of the groups.
UrlMatch(url) ==
    LET lit == <<"g", "i", "t", "h", "u", "b", ".", "c", "o", "m", "/">>
        Groups(i, ownerEnd, nextSlash) ==
            IF /\ StartsWithAt(url, lit, i)
               /\ ownerEnd > i + Len(lit)
               /\ nextSlash # ownerEnd + 1
               /\ ownerEnd + 1 < Len(url)
            THEN <<[owner |-> Substring(url, i + Len(lit), ownerEnd),
                    repo |-> Substring(url, ownerEnd + 1,
                                       IF nextSlash = -1 THEN Len(url) ELSE nextSlash)]>>
            ELSE <<>>
        After(i, ownerEnd) == Groups(i, ownerEnd, IndexOfFrom(url, <<"/">>, ownerEnd + 1))
        MatchAt(i) ==
            IF i = -1 THEN <<>> ELSE After(i, IndexOfFrom(url, <<"/">>, i + Len(lit)))
    IN MatchAt(First({i \in 0..(Len(url) - 1) : url[i + 1] = "g" /\ MatchAt(i) # <<>>}))

\* An instance no constructor has run on.
NoInstance ==
    [constructed |-> FALSE, error |-> NULL, url |-> NULL, branch |-> NULL,
     owner |-> NULL, repo |-> NULL, summary |-> NULL, tree |-> NULL,
     content |-> NULL]

\* new GitIngester(url, branch): the fields of the instance, or the message of
\* the Error it throws.
Construct(url, branch) ==
    LET Instance(urlMatch) ==
            IF urlMatch = <<>>
            THEN [NoInstance EXCEPT !.error = InvalidUrl]
            ELSE [constructed |-> TRUE, error |-> NULL,
                  url |-> IF Truthy(branch)
                          THEN url \o <<"/", "t", "r", "e", "e", "/">> \o branch
                          ELSE url,
                  branch |-> branch,
                  owner |-> urlMatch[1].owner, repo |-> urlMatch[1].repo,
                  summary |-> NULL, tree |-> NULL, content |-> NULL]
    IN Instance(UrlMatch(url))

\* new Date(iso).toLocaleDateString() in the en-US locale, UTC: month/day/year
\* of an ISO timestamp, without leading zeros.
ToLocaleDateString(iso) ==
    NumToText(TextToNum(Substring(iso, 5, 7))) \o <<"/">>
        \o NumToText(TextToNum(Substring(iso, 8, 10))) \o <<"/">>
        \o Substring(iso, 0, 4)

\* _generateSummary(repoInfo).raw
GenerateSummary(owner, repo, repoInfo) ==
    <<"R", "e", "p", "o", "s", "i", "t", "o", "r", "y", ":", " ">>
        \o owner \o <<"/">> \o repo
        \o <<"\n", "D", "e", "s", "c", "r", "i", "p", "t", "i", "o", "n", ":", " ">>
        \o (IF Truthy(repoInfo.description) THEN repoInfo.description
            ELSE <<"N", "o", " ", "d", "e", "s", "c", "r", "i", "p", "t", "i", "o", "n",
                   " ", "p", "r", "o", "v", "i", "d", "e", "d">>)
        \o <<"\n", "L", "a", "n", "g", "u", "a", "g", "e", ":", " ">>
        \o (IF Truthy(repoInfo.language) THEN repoInfo.language
            ELSE <<"N", "o", "t", " ", "s", "p", "e", "c", "i", "f", "i", "e", "d">>)
        \o <<"\n", "S", "t", "a", "r", "s", ":", " ">>
        \o NumToText(repoInfo.stargazers_count)
        \o <<"\n", "F", "o", "r", "k", "s", ":", " ">>
        \o NumToText(repoInfo.forks_count)
        \o <<"\n", "C", "r", "e", "a", "t", "e", "d", ":", " ">>
        \o ToLocaleDateString(repoInfo.created_at)
        \o <<"\n", "L", "a", "s", "t", " ", "u", "p", "d", "a", "t", "e", "d", ":", " ">>
        \o ToLocaleDateString(repoInfo.updated_at)

\* getSummary()
GetSummary(summary) == IF Truthy(summary) THEN summary ELSE SummaryNotAvailable

(***************************************************************************)
(* The remote repository (the hosted API the Octokit client calls)         *)
(***************************************************************************)

Dir(name) == [name |-> name, type |-> "dir", size |-> 0]

File(name, size) == [name |-> name, type |-> "file", size |-> size]

docs == <<"d", "o", "c", "s">>

Src == <<"S", "r", "c">>

img == <<"i", "m", "g">>

README == <<"R", "E", "A", "D", "M", "E", ".", "m", "d">>

n404 == <<"4", "0", "4">>

xTxt == <<"x", ".", "t", "x", "t">>

aPNG == <<"a", ".", "P", "N", "G">>

indexJs == <<"i", "n", "d", "e", "x", ".", "j", "s">>

bigTxt == <<"b", "i", "g", ".", "t", "x", "t">>

zzz == <<"z", "z", "z">>

\* The entries a root listing is drawn from.  A size is what the listing
\* reports; the model's bodies are short whatever size is listed.
RootEntries ==
    { Dir(docs), Dir(Src), File(README, 120), File(n404, 1000000),
      File(xTxt, 999999) }

\* data of repos.getContent for a directory below the root
RemoteListing(path) ==
    CASE path = docs -> <<File(README, 30), Dir(img)>>
      [] path = ItemPath(docs, img) -> <<File(aPNG, 7)>>
      [] path = Src -> <<File(indexJs, 45), File(bigTxt, 1000001)>>
      [] OTHER -> <<>>

\* The text of each file of the repository.  x.txt holds a line of fifty '=',
\* a File: line and another line of fifty '='.
RemoteText(path) ==
    CASE path = README -> <<"\n", "#", " ", "h", "i", " ", "\n">>
      [] path = ItemPath(docs, README) -> <<"D", "o", "c", "s">>
      [] path = n404 -> <<"n", "f">>
      [] path = xTxt ->
            <<"a", "\n">> \o HeaderRule \o <<"\n", "F", "i", "l", "e", ":", " ", "y", "\n">>
                \o HeaderRule \o <<"\n", "b">>
      [] path = ItemPath(Src, indexJs) -> <<"1", ";">>
      [] path = ItemPath(ItemPath(docs, img), aPNG) -> <<"P", "N", "G">>
      [] OTHER -> <<"b", "i", "g">>

\* data of repos.getContent for a file: its content, base64-encoded
RemoteFile(path) == [content |-> Base64Encode(RemoteText(path))]

\* data of repos.get
RemoteRepoInfo ==
    [description |-> NULL,
     language |-> <<"J", "a", "v", "a", "S", "c", "r", "i", "p", "t">>,
     stargazers_count |-> 3, forks_count |-> 1,
     created_at |-> <<"2", "0", "2", "4", "-", "0", "1", "-", "0", "2", "T", "0", "3",
                      ":", "0", "4", ":", "0", "5", "Z">>,
     updated_at |-> <<"2", "0", "2", "5", "-", "1", "1", "-", "3", "0", "T", "1", "0",
                      ":", "0", "0", ":", "0", "0", "Z">>,
     default_branch |-> <<"m", "a", "i", "n">>]

\* error.message of a remote call that fails
ErrorMessages == { <<"N", "o", "t", " ", "F", "o", "u", "n", "d">> }

(***************************************************************************)
(* The fetch cycle.  A machine state st holds the instance's fields (ing),  *)
(* the promise of fetchRepoData (fetch), the remote calls in flight         *)
(* (pending, indices into calls), every call issued so far with its outcome *)
(* (calls), and the activations of _generateTree and _generateContent       *)
(* (treeStack, contentStack: the innermost last; its first item is the one  *)
(* whose remote call is awaited).  Each operator runs the code from one     *)
(* await to the next.                                                       *)
(***************************************************************************)

\* Issue with the same call sent a second time beside the first.
IssueWithNext(st, purpose, path, ref) ==
    [st EXCEPT !.pending = @ \cup {Len(st.calls) + 1, Len(st.calls) + 2},
               !.calls = @ \o <<[purpose |-> purpose, path |-> path, ref |-> ref,
                                 outcome |-> "pending"],
                                [purpose |-> purpose, path |-> path, ref |-> ref,
                                 outcome |-> "pending"]>>]

\* await this.octokit.rest.repos...: the call goes out and the caller is
\* suspended.
Issue(st, purpose, path, ref) ==
    [st EXCEPT !.pending = @ \cup {Len(st.calls) + 1},
               !.calls = Append(@, [purpose |-> purpose, path |-> path,
                                    ref |-> ref, outcome |-> "pending"])]

\* The call's response or error has arrived.
Settle(st, id, outcome) ==
    [st EXCEPT !.pending = @ \ {id}, !.calls[id].outcome = outcome]

\* The catch of fetchRepoData: the promise rejects.
Reject(st, message) ==
    [st EXCEPT !.fetch.state = "rejected",
               !.fetch.message = FetchFailedPrefix \o message]

\* this.content = await this._generateContent(contents) has its value:
\* _processRepoData and fetchRepoData return.
AfterContent(st, content) ==
    [st EXCEPT !.ing.content = content, !.fetch.state = "fulfilled"]

\* _generateContent from the item it is at up to its next await, or its return.
RECURSIVE RunContent(_)
RunContent(st) ==
    LET stack == st.contentStack
        depth == Len(stack)
        top == stack[depth]
    IN IF top.items = <<>>
       THEN IF depth = 1
            THEN AfterContent([st EXCEPT !.contentStack = <<>>], top.content)
            ELSE \* content += await this._generateContent(subContents.data, itemPath)
                 RunContent([st EXCEPT !.contentStack =
                     [SubSeq(stack, 1, depth - 1) EXCEPT
                         ![depth - 1].content = @ \o top.content,
                         ![depth - 1].items = Tail(@)]])
       ELSE LET item == Head(top.items)
                itemPath == ItemPath(top.path, item.name)
            IN IF item.type = "file"
               THEN IF SkipsBody(item)
                    THEN RunContent([st EXCEPT
                             !.contentStack[depth].content =
                                 @ \o FileHeader(itemPath) \o BinaryPlaceholder(item.size),
                             !.contentStack[depth].items = Tail(@)])
                    ELSE Issue(st, "file", itemPath, st.ing.branch)
               ELSE IF item.type = "dir"
               THEN Issue(st, "dir", itemPath, st.ing.branch)
               ELSE RunContent([st EXCEPT !.contentStack[depth].items = Tail(@)])

\* this._generateContent(contents, path)
StartContent(st, contents, path) ==
    RunContent([st EXCEPT !.contentStack =
        Append(@, [items |-> contents, path |-> path, content |-> <<>>])])

\* this.tree = await this._generateTree(contents) has its value; the content
\* traversal starts.
AfterTree(st, tree) ==
    StartContent([st EXCEPT !.ing.tree = tree], st.fetch.contents, <<>>)

\* _generateTree from the item it is at up to its next await, or its return.
RECURSIVE RunTree(_)
RunTree(st) ==
    LET stack == st.treeStack
        depth == Len(stack)
        top == stack[depth]
    IN IF top.items = <<>>
       THEN IF depth = 1
            THEN AfterTree([st EXCEPT !.treeStack = <<>>], top.tree)
            ELSE \* tree += await this._generateTree(subContents.data, itemPath)
                 RunTree([st EXCEPT !.treeStack =
                     [SubSeq(stack, 1, depth - 1) EXCEPT
                         ![depth - 1].tree = @ \o top.tree,
                         ![depth - 1].items = Tail(@)]])
       ELSE LET item == Head(top.items)
            IN IF item.type = "dir"
               THEN Issue([st EXCEPT !.treeStack[depth].tree =
                               @ \o FolderLine(top.path, item.name)],
                          "tree", ItemPath(top.path, item.name), st.ing.branch)
               ELSE RunTree([st EXCEPT
                        !.treeStack[depth].tree = @ \o FileLine(top.path, item.name),
                        !.treeStack[depth].items = Tail(@)])

\* this._generateTree(contents, path): the sort, then the loop.
StartTree(st, contents, path) ==
    RunTree([st EXCEPT !.treeStack =
        Append(@, [items |-> SortContents(contents), path |-> path, tree |-> <<>>])])

\* _processRepoData(repoInfo, contents)
ProcessRepoData(st, repoInfo, contents) ==
    StartTree([st EXCEPT !.ing.summary =
                   GenerateSummary(st.ing.owner, st.ing.repo, repoInfo),
               !.fetch.contents = contents],
              contents, <<>>)

\* fetchRepoData(): the first await, repos.get.
FetchRepoData(st) ==
    Issue([st EXCEPT !.fetch.state = "pending"], "repoInfo", <<>>, NULL)

(***************************************************************************)
(* The CallTool handler of index.js                                        *)
(***************************************************************************)

git_summary == <<"g", "i", "t", "_", "s", "u", "m", "m", "a", "r", "y">>

git_tree == <<"g", "i", "t", "_", "t", "r", "e", "e">>

git_files == <<"g", "i", "t", "_", "f", "i", "l", "e", "s">>

ToolNames == {git_summary, git_tree, git_files}

GithubUrl ==
    <<"h", "t", "t", "p", "s", ":", "/", "/", "g", "i", "t", "h", "u", "b", ".", "c",
      "o", "m", "/">>

\* `Try visiting https://github.com/${owner}/${repo} directly.`
Fallback(owner, repo) ==
    <<"T", "r", "y", " ", "v", "i", "s", "i", "t", "i", "n", "g", " ">>
        \o GithubUrl \o owner \o <<"/">> \o repo
        \o <<" ", "d", "i", "r", "e", "c", "t", "l", "y", ".">>

\* Failure with the message alone.
FailureWithoutFallback(req, message) == [isError |-> TRUE, text |-> message]

\* The response of a catch block of the handler.
Failure(req, message) ==
    LET what == CASE req.name = git_summary ->
                       <<"r", "e", "p", "o", "s", "i", "t", "o", "r", "y", " ", "s", "u",
                         "m", "m", "a", "r", "y">>
                  [] req.name = git_tree ->
                       <<"r", "e", "p", "o", "s", "i", "t", "o", "r", "y", " ", "t", "r",
                         "e", "e">>
                  [] OTHER ->
                       <<"f", "i", "l", "e", " ", "c", "o", "n", "t", "e", "n", "t">>
    IN [isError |-> TRUE,
        text |-> <<"F", "a", "i", "l", "e", "d", " ", "t", "o", " ", "g", "e", "t", " ">>
                     \o what \o <<":", " ">> \o message \o <<".", " ">>
                     \o Fallback(req.owner, req.repo)]

\* The handler after await ingester.fetchRepoData() has settled.
ToolResponse(req, st) ==
    LET Summary(summary, readmeContent) ==
            [isError |-> FALSE,
             text |-> IF Truthy(readmeContent) /\ Includes(readmeContent, README)
                      THEN summary \o <<"\n", "\n">> \o readmeContent
                      ELSE summary]
        Files(filesContent) ==
            IF ~Truthy(filesContent)
            THEN [isError |-> TRUE,
                  text |-> NoneFound \o <<" ", "i", "n", " ", "t", "h", "e", " ", "r",
                                         "e", "p", "o", "s", "i", "t", "o", "r", "y">>]
            ELSE [isError |-> FALSE, text |-> filesContent]
    IN IF st.fetch.state = "rejected" THEN Failure(req, st.fetch.message)
       ELSE CASE req.name = git_summary ->
                   Summary(GetSummary(st.ing.summary),
                           GetContent(st.ing.content, <<README>>))
              [] req.name = git_tree ->
                   [isError |-> FALSE, text |-> GetTree(st.ing.tree)]
              [] OTHER -> Files(GetContent(st.ing.content, req.file_paths))

\* The response to a tool the handler does not know.
UnknownTool(req) ==
    [isError |-> TRUE,
     text |-> <<"U", "n", "k", "n", "o", "w", "n", " ", "t", "o", "o", "l", ":", " ">>
                  \o req.name]

(***************************************************************************)
(* Bounds and inputs                                                       *)
(***************************************************************************)

\* The most entries of a root listing.
MaxRootEntries == 3

\* The most remote calls that fail in one fetch cycle.
MaxFailures == 2

\* The most paths of a getContent call of the script.
MaxPaths == 2

\* The most getter calls of the script.
MaxGetterCalls == 1

\* The most path segments of a URL given to the constructor.
MaxSegments == 3

Orderings(S) ==
    {s \in [1..Cardinality(S) -> S] : \A i, j \in 1..Cardinality(S) : i # j => s[i] # s[j]}

RootListings ==
    UNION {Orderings(S) :
              S \in {T \in SUBSET RootEntries :
                        Cardinality(T) >= 1 /\ Cardinality(T) <= MaxRootEntries}}

octo == <<"o", "c", "t", "o">>

repoName == <<"r", "e", "p", "o">>

dev == <<"d", "e", "v">>

\* The requests the server is sent.
ToolRequests ==
    { [name |-> git_summary, owner |-> octo, repo |-> repoName, branch |-> NULL,
       file_paths |-> NoArgument],
      [name |-> git_tree, owner |-> octo, repo |-> repoName, branch |-> dev,
       file_paths |-> NoArgument],
      [name |-> git_files, owner |-> octo, repo |-> repoName, branch |-> NULL,
       file_paths |-> <<README>>],
      [name |-> git_files, owner |-> octo, repo |-> repoName, branch |-> NULL,
       file_paths |-> <<zzz, ItemPath(docs, README)>>],
      [name |-> git_tree, owner |-> <<>>, repo |-> repoName, branch |-> NULL,
       file_paths |-> NoArgument],
      [name |-> <<"g", "i", "t", "_", "l", "o", "g">>, owner |-> octo,
       repo |-> repoName, branch |-> NULL, file_paths |-> NoArgument] }

\* The paths of the repository's files, in the order of its listings.
RECURSIVE FilePaths(_, _)
FilePaths(contents, path) ==
    LET Paths(item, itemPath) ==
            IF item.type = "dir" THEN FilePaths(RemoteListing(itemPath), itemPath)
            ELSE <<[path |-> itemPath, name |-> item.name, size |-> item.size]>>
    IN IF contents = <<>> THEN <<>>
       ELSE Paths(Head(contents), ItemPath(path, Head(contents).name))
            \o FilePaths(Tail(contents), path)

\* The paths of the repository's text files: those with a listed size of at
\* most 1,000,000 and a name that ends in none of the binary extensions.
TextFilePaths(contents) ==
    LET TextName(lower) == \A e \in binaryExtensions : ~EndsWith(lower, e)
        text == SelectSeq(FilePaths(contents, <<>>),
                          LAMBDA f : f.size <= 1000000 /\ TextName(ToLowerCase(f.name)))
    IN [i \in 1..Len(text) |-> text[i].path]

RequestPaths == {README, ItemPath(docs, README), n404}

\* The arguments the script gives getContent: none, every list of at most
\* MaxPaths paths, and the list of all the text files of the repository.
PathLists(contents) ==
    {NoArgument, TextFilePaths(contents)}
        \cup UNION {[1..n -> RequestPaths] : n \in 0..MaxPaths}

\* The URLs the constructor is given: https://<host>/<segment>/...
Hosts ==
    { <<"g", "i", "t", "h", "u", "b", ".", "c", "o", "m">>,
      <<"g", "i", "t", "l", "a", "b", ".", "c", "o", "m">>,
      <<"w", "w", "w", ".", "g", "i", "t", "h", "u", "b", ".", "c", "o", "m">>,
      <<"g", "i", "t", "h", "u", "b", ".", "i", "o">> }

Segments == {octo, repoName, <<"g", "i", "t", "h", "u", "b", ".", "c", "o", "m">>}

RECURSIVE Join(_)
Join(segments) ==
    IF segments = <<>> THEN <<>>
    ELSE <<"/">> \o Head(segments) \o Join(Tail(segments))

UrlText(host, segments) ==
    <<"h", "t", "t", "p", "s", ":", "/", "/">> \o host \o Join(segments)

Urls ==
    {UrlText(host, segments) :
        host \in Hosts, segments \in UNION {[1..n -> Segments] : n \in 0..MaxSegments}}

Branches == {NULL, dev}

(***************************************************************************)
(* State                                                                   *)
(***************************************************************************)

VARIABLES
    rootListing,    \* the remote repository's root listing
    request,        \* the CallTool request being handled: <<>> or <<request>>
    response,       \* the handler's response: <<>> or <<response>>
    ingester,       \* the fields of the GitIngester instance
    fetch,          \* the promise of fetchRepoData and its local variables
    pending,        \* the remote calls in flight
    calls,          \* every remote call issued, with its outcome
    treeStack,      \* the activations of _generateTree
    contentStack,   \* the activations of _generateContent
    result          \* the script's getter calls, each with what it returned

vars ==
    <<rootListing, request, response, ingester, fetch, pending, calls, treeStack,
      contentStack, result>>

Machine ==
    [ing |-> ingester, fetch |-> fetch, pending |-> pending, calls |-> calls,
     treeStack |-> treeStack, contentStack |-> contentStack]

Init ==
    /\ rootListing \in RootListings
    /\ request = <<>>
    /\ response = <<>>
    /\ ingester = NoInstance
    /\ fetch = [state |-> "none", message |-> NULL, repoInfo |-> <<>>,
                contents |-> <<>>]
    /\ pending = {}
    /\ calls = <<>>
    /\ treeStack = <<>>
    /\ contentStack = <<>>
    /\ result = <<>>

\* The machine state st becomes the state; when the promise of fetchRepoData
\* settles in this step, the handler that awaits it goes on to its response.
Commit(st, req) ==
    /\ ingester' = st.ing
    /\ fetch' = st.fetch
    /\ pending' = st.pending
    /\ calls' = st.calls
    /\ treeStack' = st.treeStack
    /\ contentStack' = st.contentStack
    /\ response' = IF req # <<>> /\ st.fetch.state \in {"fulfilled", "rejected"}
                   THEN <<ToolResponse(req[1], st)>>
                   ELSE response
    /\ UNCHANGED <<rootListing, result>>

\* The code suspended in an await goes on, whoever called fetchRepoData.
Resume(st) == Commit(st, request) /\ UNCHANGED request

\* A remote call may fail while fewer than MaxFailures calls have failed.
MayFail == Cardinality({i \in 1..Len(calls) : calls[i].outcome = "error"}) < MaxFailures

(***************************************************************************)
(* The remote calls return                                                 *)
(***************************************************************************)

\* ref: this.branch || repoInfo.data.default_branch
RootRef(st, repoInfo) ==
    IF Truthy(st.ing.branch) THEN st.ing.branch ELSE repoInfo.default_branch

\* fetchRepoData after repos.get has returned: the second await.
AfterRepoInfo(st, repoInfo) ==
    Issue([st EXCEPT !.fetch.repoInfo = <<repoInfo>>], "root", <<>>,
          RootRef(st, repoInfo))

\* _generateTree after the listing of a directory has failed: the catch.
TreeListingFailed(st) ==
    LET depth == Len(st.treeStack)
    IN RunTree([st EXCEPT
           !.treeStack[depth].tree = @ \o WarningLine(st.treeStack[depth].path),
           !.treeStack[depth].items = Tail(@)])

\* _generateContent after the listing of a directory has failed: the empty
\* catch.
ContentListingFailed(st) ==
    LET depth == Len(st.contentStack)
    IN RunContent([st EXCEPT !.contentStack[depth].items = Tail(@)])

\* _generateContent after the body of a file has arrived.
FileBodyLoaded(st, path, data) ==
    LET depth == Len(st.contentStack)
        decodedContent == Base64Decode(data.content)
    IN RunContent([st EXCEPT
           !.contentStack[depth].content =
               @ \o FileHeader(path) \o decodedContent \o <<"\n", "\n">>,
           !.contentStack[depth].items = Tail(@)])

\* _generateContent after the fetch of a file's body has failed: the catch.
FileBodyFailed(st, path, message) ==
    LET depth == Len(st.contentStack)
    IN RunContent([st EXCEPT
           !.contentStack[depth].content =
               @ \o FileHeader(path) \o ErrorPlaceholder(message),
           !.contentStack[depth].items = Tail(@)])

\* repos.get returns the repository's metadata, or fails.
RepoInfoReturns ==
    \E id \in pending :
        /\ calls[id].purpose = "repoInfo"
        /\ \/ Resume(AfterRepoInfo(Settle(Machine, id, "ok"), RemoteRepoInfo))
           \/ \E message \in ErrorMessages :
                 /\ MayFail
                 /\ Resume(Reject(Settle(Machine, id, "error"), message))

\* repos.getContent for the root returns the root listing, or fails.
RootListingReturns ==
    \E id \in pending :
        /\ calls[id].purpose = "root"
        /\ \/ Resume(ProcessRepoData(Settle(Machine, id, "ok"), fetch.repoInfo[1],
                                     rootListing))
           \/ \E message \in ErrorMessages :
                 /\ MayFail
                 /\ Resume(Reject(Settle(Machine, id, "error"), message))

\* repos.getContent of _generateTree returns a directory's listing, or fails.
TreeListingReturns ==
    \E id \in pending :
        /\ calls[id].purpose = "tree"
        /\ \/ Resume(StartTree(Settle(Machine, id, "ok"),
                               RemoteListing(calls[id].path), calls[id].path))
           \/ /\ MayFail
              /\ Resume(TreeListingFailed(Settle(Machine, id, "error")))

\* repos.getContent of _generateContent returns a directory's listing, or
\* fails.
ContentListingReturns ==
    \E id \in pending :
        /\ calls[id].purpose = "dir"
        /\ \/ Resume(StartContent(Settle(Machine, id, "ok"),
                                  RemoteListing(calls[id].path), calls[id].path))
           \/ /\ MayFail
              /\ Resume(ContentListingFailed(Settle(Machine, id, "error")))

\* repos.getContent of _generateContent returns a file's body, or fails.
FileBodyReturns ==
    \E id \in pending :
        /\ calls[id].purpose = "file"
        /\ \/ Resume(FileBodyLoaded(Settle(Machine, id, "ok"), calls[id].path,
                                    RemoteFile(calls[id].path)))
           \/ \E message \in ErrorMessages :
                 /\ MayFail
                 /\ Resume(FileBodyFailed(Settle(Machine, id, "error"),
                                          calls[id].path, message))

(***************************************************************************)
(* The server: one CallTool request                                        *)
(***************************************************************************)

\* The CallTool handler up to its first await, or to its response.
CallTool(req) ==
    /\ request = <<>>
    /\ request' = <<req>>
    /\ IF req.name \notin ToolNames
       THEN /\ response' = <<UnknownTool(req)>>
            /\ UNCHANGED <<rootListing, ingester, fetch, pending, calls, treeStack,
                           contentStack, result>>
       ELSE LET ing == Construct(GithubUrl \o req.owner \o <<"/">> \o req.repo,
                                 req.branch)
            IN IF ~ing.constructed
               THEN /\ ingester' = ing
                    /\ response' = <<Failure(req, ing.error)>>
                    /\ UNCHANGED <<rootListing, fetch, pending, calls, treeStack,
                                   contentStack, result>>
               ELSE Commit(FetchRepoData([Machine EXCEPT !.ing = ing]), <<req>>)

Returns ==
    \/ RepoInfoReturns
    \/ RootListingReturns
    \/ TreeListingReturns
    \/ ContentListingReturns
    \/ FileBodyReturns

Next ==
    \/ \E req \in ToolRequests : CallTool(req)
    \/ Returns

Spec == Init /\ [][Next]_vars

(***************************************************************************)
(* The library: a script that constructs an instance, awaits fetchRepoData *)
(* and calls the getters, as examples/usage.js                             *)
(***************************************************************************)

\* new GitIngester(url, branch)
New(url, branch) ==
    /\ ingester = NoInstance
    /\ ingester' = Construct(url, branch)
    /\ UNCHANGED <<rootListing, request, response, fetch, pending, calls, treeStack,
                   contentStack, result>>

\* await ingester.fetchRepoData().  The getters change no field, so the
\* script that has called one does not go on to fetch.
CallFetchRepoData ==
    /\ ingester.constructed
    /\ fetch.state = "none"
    /\ result = <<>>
    /\ request' = request
    /\ Commit(FetchRepoData(Machine), <<>>)

\* The script is not suspended in an await and goes on to call a getter.
Running ==
    /\ ingester.constructed
    /\ fetch.state # "pending"
    /\ Len(result) < MaxGetterCalls

\* ingester.getSummary()
CallGetSummary ==
    /\ Running
    /\ result' = Append(result, [op |-> "getSummary", filePaths |-> NoArgument,
                    value |-> GetSummary(ingester.summary)])
    /\ UNCHANGED <<rootListing, request, response, ingester, fetch, pending, calls,
                   treeStack, contentStack>>

\* ingester.getTree()
CallGetTree ==
    /\ Running
    /\ result' = Append(result, [op |-> "getTree", filePaths |-> NoArgument,
                    value |-> GetTree(ingester.tree)])
    /\ UNCHANGED <<rootListing, request, response, ingester, fetch, pending, calls,
                   treeStack, contentStack>>

\* ingester.getContent(filePaths)
CallGetContent(filePaths) ==
    /\ Running
    /\ result' = Append(result, [op |-> "getContent", filePaths |-> filePaths,
                    value |-> GetContent(ingester.content, filePaths)])
    /\ UNCHANGED <<rootListing, request, response, ingester, fetch, pending, calls,
                   treeStack, contentStack>>

LibraryUrl == GithubUrl \o octo \o <<"/">> \o repoName

NextLib ==
    \/ New(LibraryUrl, NULL)
    \/ CallFetchRepoData
    \/ Returns
    \/ CallGetSummary
    \/ CallGetTree
    \/ \E filePaths \in PathLists(rootListing) : CallGetContent(filePaths)

SpecLib == Init /\ [][NextLib]_vars

(***************************************************************************)
(* The constructor alone, over the URLs                                    *)
(***************************************************************************)

InitUrl == Init /\ rootListing = <<File(README, 120)>>

NextUrl == \E url \in Urls, branch \in Branches : New(url, branch)

SpecUrl == InitUrl /\ [][NextUrl]_vars

(***************************************************************************)
(* What the claims speak of, stated apart from the code above              *)
(***************************************************************************)

\* The body of each text file of the repository, as String.prototype.trim
\* leaves it.
TrimmedText(path) ==
    CASE path = README -> <<"#", " ", "h", "i">>
      [] path = ItemPath(docs, README) -> <<"D", "o", "c", "s">>
      [] path = n404 -> <<"n", "f">>
      [] path = ItemPath(Src, indexJs) -> <<"1", ";">>
      [] OTHER -> RemoteText(path)

\* The paths of the files whose body was fetched, in the order of the fetches.
FetchedPaths ==
    LET fetched == SelectSeq(calls, LAMBDA c : c.purpose = "file" /\ c.outcome = "ok")
    IN [i \in 1..Len(fetched) |-> fetched[i].path]

\* The content traversal could not list a directory above this path.
UnderFailedListing(path) ==
    \E i \in 1..Len(calls) :
        /\ calls[i].purpose = "dir"
        /\ calls[i].outcome = "error"
        /\ StartsWithAt(path, calls[i].path \o <<"/">>, 0)

\* The paths of the files the content traversal came to, in its order.
SerializedPaths ==
    LET files == SelectSeq(FilePaths(rootListing, <<>>),
                           LAMBDA f : ~UnderFailedListing(f.path))
    IN [i \in 1..Len(files) |-> files[i].path]

\* text holds, from the start of a line that follows a blank line or starts the
\* text, the three header lines of path and then body, and after body the text
\* ends or a blank line and the next header follow.
HasSection(text, path, body) ==
    \E i \in 0..(Len(text) - HeaderWidth) :
        /\ text[i + 1] = "="
        /\ i = 0 \/ (i >= 2 /\ text[i] = "\n" /\ text[i - 1] = "\n")
        /\ StartsWithAt(text, FileHeader(path) \o body, i)
        /\ \/ i + Len(FileHeader(path) \o body) = Len(text)
           \/ StartsWithAt(text, <<"\n", "\n">> \o HeaderRule,
                           i + Len(FileHeader(path) \o body))

\* The getContent calls the script made on an instance whose fetch cycle has
\* completed.
ContentCalls ==
    IF fetch.state = "fulfilled"
    THEN {k \in 1..Len(result) : result[k].op = "getContent"}
    ELSE {}

\* No body holds fifty '=' followed by a line that starts with File:.
NoHeaderInBodies ==
    \A i \in 1..Len(FetchedPaths) :
        ~Includes(RemoteText(FetchedPaths[i]), HeaderRule \o <<"\n", "F", "i", "l", "e", ":">>)

(***************************************************************************)
(* C1                                                                      *)
(***************************************************************************)

\* C1, as the spec states it, for bodies that hold no header text: getContent
\* with the list of the paths of all the text files serialized returns, for
\* each of them, a section that is the three header lines (fifty '=',
\* File: <path>, fifty '=') and then exactly the file's trimmed body.
C1_RoundTrip ==
    \A k \in ContentCalls :
        (result[k].filePaths = FetchedPaths /\ NoHeaderInBodies)
        => \A i \in 1..Len(FetchedPaths) :
               HasSection(result[k].value, FetchedPaths[i], TrimmedText(FetchedPaths[i]))

(***************************************************************************)
(* C2                                                                      *)
(***************************************************************************)

\* C2, as the spec states it: when the blob records README.md only in the
\* section docs/README.md, a request for the bare name README.md finds that
\* section, and so does a request for docs/README.md; a request for a name no
\* section has returns the 'none found' text.
C2_BasenameRequest ==
    \A k \in ContentCalls :
        (/\ \E i \in 1..Len(FetchedPaths) : FetchedPaths[i] = ItemPath(docs, README)
         /\ \A i \in 1..Len(SerializedPaths) : SerializedPaths[i] # README)
        => /\ result[k].filePaths = <<README>>
              => Includes(result[k].value, TrimmedText(ItemPath(docs, README)))
           /\ result[k].filePaths = <<ItemPath(docs, README)>>
              => Includes(result[k].value, TrimmedText(ItemPath(docs, README)))
           /\ result[k].filePaths = <<n404>> /\ n404 \notin {SerializedPaths[i] : i \in 1..Len(SerializedPaths)}
              => result[k].value = NoneFound

(***************************************************************************)
(* C3                                                                      *)
(***************************************************************************)

\* C3, as the spec states it: the sections of the result of getContent come in
\* the order in which their paths were requested.
C3_RequestOrder ==
    \A k \in ContentCalls :
        result[k].filePaths # NoArgument
        => \A i, j \in 1..Len(result[k].filePaths) :
               (/\ i < j
                /\ result[k].filePaths[i] # result[k].filePaths[j]
                /\ Includes(result[k].value, FileHeader(result[k].filePaths[i]))
                /\ Includes(result[k].value, FileHeader(result[k].filePaths[j])))
               => IndexOfFrom(result[k].value, FileHeader(result[k].filePaths[i]), 0)
                      < IndexOfFrom(result[k].value, FileHeader(result[k].filePaths[j]), 0)

(***************************************************************************)
(* C4                                                                      *)
(***************************************************************************)

\* C4, as the spec states it: after a completed fetch cycle, getContent with
\* paths of which none matches a section returns the 'None of the requested
\* files were found' text, for every blob, the blob without a section
\* included.
C4_NoneFoundSentinel ==
    \A k \in ContentCalls :
        (/\ result[k].filePaths # NoArgument
         /\ \A i \in 1..Len(result[k].filePaths), j \in 1..Len(SerializedPaths) :
                /\ result[k].filePaths[i] # SerializedPaths[j]
                /\ ~EndsWith(result[k].filePaths[i], <<"/">> \o SerializedPaths[j])
                /\ ~EndsWith(SerializedPaths[j], <<"/">> \o result[k].filePaths[i]))
        => result[k].value = NoneFound

(***************************************************************************)
(* C5                                                                      *)
(***************************************************************************)

Spaces(n) == [i \in 1..n |-> " "]

\* The position at which a line of the text starts with `line`, -1 for none.
LineAt(text, line) ==
    First({i \in 0..(Len(text) - Len(line)) :
              (i = 0 \/ text[i] = "\n") /\ StartsWithAt(text, line, i)})

\* The directories of the repository, the root being <<>>.
Levels == {<<>>, docs, Src, ItemPath(docs, img)}

Listing(level) == IF level = <<>> THEN rootListing ELSE RemoteListing(level)

\* The tree line of an entry of the listing of `level`.
EntryLine(level, item) ==
    Spaces(2 * Cardinality({i \in 1..Len(ItemPath(level, item.name)) :
                               ItemPath(level, item.name)[i] = "/"}))
        \o (IF item.type = "dir" THEN <<FolderIcon, " ">> \o item.name \o <<"/", "\n">>
            ELSE <<FileIcon, " ">> \o item.name \o <<"\n">>)

\* The names of the repository in the order of the locale's collation, which
\* ignores case before anything else, and in the order of their code units,
\* in which every capital precedes every small letter.
CollationNames == <<n404, aPNG, bigTxt, docs, img, indexJs, README, Src, xTxt>>

CodeUnitNames == <<n404, README, Src, aPNG, bigTxt, docs, img, indexJs, xTxt>>

\* At each level the tree has its directories before its files, and within
\* the directories and within the files the names in the order of `names`.
TreeInOrder(names) ==
    LET Rank(name) == CHOOSE r \in 1..Len(names) : names[r] = name
        Precedes(a, b) ==
            \/ a.type = "dir" /\ b.type # "dir"
            \/ /\ (a.type = "dir") = (b.type = "dir")
               /\ Rank(a.name) < Rank(b.name)
    IN \A level \in Levels :
           \A i, j \in 1..Len(Listing(level)) :
               (/\ LineAt(ingester.tree, EntryLine(level, Listing(level)[i])) # -1
                /\ LineAt(ingester.tree, EntryLine(level, Listing(level)[j])) # -1
                /\ Precedes(Listing(level)[i], Listing(level)[j]))
               => LineAt(ingester.tree, EntryLine(level, Listing(level)[i]))
                      < LineAt(ingester.tree, EntryLine(level, Listing(level)[j]))

\* C5, as amended: whatever the order of a listing, the tree renders its
\* directories before its files and, within the directories and within the
\* files, the names in the order of localeCompare (the locale's collation, in
\* which docs precedes Src), not in the order of their code units; every entry
\* of the root listing is rendered.
C5_TreeOrder ==
    ingester.tree # NULL
    => /\ TreeInOrder(CollationNames)
       /\ \A i \in 1..Len(rootListing) :
              LineAt(ingester.tree, EntryLine(<<>>, rootListing[i])) # -1

\* C5, witness: a root listing that lists a file, then Src, then docs is
\* rendered with docs first, Src second and the file last.
C5_TreeOrderReached ==
    /\ ingester.tree # NULL
    /\ rootListing = <<File(README, 120), Dir(Src), Dir(docs)>>
    /\ LineAt(ingester.tree, EntryLine(<<>>, Dir(docs))) = 0
    /\ LineAt(ingester.tree, EntryLine(<<>>, Dir(docs)))
           < LineAt(ingester.tree, EntryLine(<<>>, Dir(Src)))
    /\ LineAt(ingester.tree, EntryLine(<<>>, Dir(Src)))
           < LineAt(ingester.tree, EntryLine(<<>>, File(README, 120)))

\* C5, as the spec states it: within the directories and within the files the
\* tree renders the names in case-sensitive lexicographic order.
C5_TreeOrderCaseSensitive == ingester.tree # NULL => TreeInOrder(CodeUnitNames)

(***************************************************************************)
(* C6                                                                      *)
(***************************************************************************)

\* The file's name ends, whatever its case, in none of the binary extensions
\* and its listed size is at most 1,000,000.
BodyWanted(file) ==
    LET TextName(lower) == \A e \in binaryExtensions : ~EndsWith(lower, e)
    IN file.size <= 1000000 /\ TextName(ToLowerCase(file.name))

\* The files the content traversal came to.
SerializedFiles ==
    SelectSeq(FilePaths(rootListing, <<>>), LAMBDA f : ~UnderFailedListing(f.path))

BodyFetches(path) ==
    Cardinality({i \in 1..Len(calls) : calls[i].purpose = "file" /\ calls[i].path = path})

\* The line written for a file whose body is not fetched.
SkippedLine(file) ==
    IF file.size = 7
    THEN <<"[", "B", "i", "n", "a", "r", "y", " ", "o", "r", " ", "l", "a", "r", "g",
           "e", " ", "f", "i", "l", "e", ":", " ", "7", " ", "b", "y", "t", "e", "s",
           "]", "\n", "\n">>
    ELSE <<"[", "B", "i", "n", "a", "r", "y", " ", "o", "r", " ", "l", "a", "r", "g",
           "e", " ", "f", "i", "l", "e", ":", " ", "1", "0", "0", "0", "0", "0", "1",
           " ", "b", "y", "t", "e", "s", "]", "\n", "\n">>

\* C6: a body fetch is issued only for a file whose extension, compared without
\* regard to case, is not in the binary list and whose listed size is at most
\* 1,000,000; once the content traversal has finished, every such file it came
\* to has had one body fetch, and every other file none and, after its header,
\* the line [Binary or large file: <size> bytes]; a body that was fetched is
\* in the blob decoded, as is that of x.txt, listed with 999,999 bytes.
C6_BodyFetched ==
    /\ \A i \in 1..Len(calls) :
           calls[i].purpose = "file"
           => \E k \in 1..Len(FilePaths(rootListing, <<>>)) :
                  /\ FilePaths(rootListing, <<>>)[k].path = calls[i].path
                  /\ BodyWanted(FilePaths(rootListing, <<>>)[k])
    /\ fetch.state = "fulfilled"
       => \A k \in 1..Len(SerializedFiles) :
              IF BodyWanted(SerializedFiles[k])
              THEN /\ BodyFetches(SerializedFiles[k].path) = 1
                   /\ SerializedFiles[k].path \in {FetchedPaths[i] : i \in 1..Len(FetchedPaths)}
                      => Includes(ingester.content,
                                  FileHeader(SerializedFiles[k].path)
                                      \o RemoteText(SerializedFiles[k].path)
                                      \o <<"\n", "\n">>)
              ELSE /\ BodyFetches(SerializedFiles[k].path) = 0
                   /\ Includes(ingester.content,
                               FileHeader(SerializedFiles[k].path)
                                   \o SkippedLine(SerializedFiles[k]))

\* C6, witness: the traversal has finished on a repository with a.PNG, not
\* fetched, x.txt of 999,999 bytes and 404 of 1,000,000 bytes, both fetched.
C6_BodyFetchedReached ==
    /\ fetch.state = "fulfilled"
    /\ BodyFetches(ItemPath(ItemPath(docs, img), aPNG)) = 0
    /\ Includes(ingester.content,
                FileHeader(ItemPath(ItemPath(docs, img), aPNG)) \o SkippedLine(File(aPNG, 7)))
    /\ {xTxt, n404} \subseteq {FetchedPaths[i] : i \in 1..Len(FetchedPaths)}
    /\ Includes(ingester.content, FileHeader(xTxt) \o RemoteText(xTxt) \o <<"\n", "\n">>)

(***************************************************************************)
(* C7                                                                      *)
(***************************************************************************)

\* The directory a path is listed in, and the name it is listed under.
ParentOf(path) == SubSeq(path, 1, Last({i \in 1..Len(path) : path[i] = "/"}) - 1)

NameOf(path) ==
    SubSeq(path, Max({0} \cup {i \in 1..Len(path) : path[i] = "/"}) + 1, Len(path))

\* The directories whose listing the tree traversal, or the content traversal,
\* asked for and did not get.
FailedListings(purpose) ==
    {calls[i].path : i \in {k \in 1..Len(calls) :
                              calls[k].purpose = purpose /\ calls[k].outcome = "error"}}

SlashCount(path) == Cardinality({i \in 1..Len(path) : path[i] = "/"})

\* The tree line of a directory, and the warning one indent deeper.
DirLine(dir) == EntryLine(ParentOf(dir), Dir(NameOf(dir)))

WarningText(dir) ==
    Spaces(2 * SlashCount(dir) + 2) \o <<WarningIcon>>
        \o <<" ", "E", "r", "r", "o", "r", " ", "l", "o", "a", "d", "i", "n", "g", " ", "d", "i", "r", "e", "c", "t", "o", "r", "y", " ", "c", "o", "n", "t", "e", "n", "t", "s", "\n">>

\* The tree has, from position `at`, the line of the directory and the
\* warning, and the line after the warning is no deeper than the directory.
WarnedAt(dir, at) ==
    /\ at # -1
    /\ ~StartsWithAt(ingester.tree, Spaces(2 * SlashCount(dir) + 2),
                     at + Len(DirLine(dir) \o WarningText(dir)))

\* C7: once the tree is built, a subdirectory whose listing failed has its own
\* line, directly followed by one warning line, Error loading directory
\* contents, one indent deeper, with no line of a child after it, and every
\* entry listed beside the subdirectory has its line; once the content is
\* built, it holds no path under a subdirectory whose listing failed for the
\* content traversal, and every file outside such a subdirectory has its
\* header.
C7_ListingFailure ==
    /\ ingester.tree # NULL
       => \A dir \in FailedListings("tree") :
              /\ WarnedAt(dir, LineAt(ingester.tree, DirLine(dir) \o WarningText(dir)))
              /\ \A k \in 1..Len(Listing(ParentOf(dir))) :
                     LineAt(ingester.tree,
                            EntryLine(ParentOf(dir), Listing(ParentOf(dir))[k])) # -1
    /\ fetch.state = "fulfilled"
       => /\ \A dir \in FailedListings("dir") :
                 ~Includes(ingester.content, dir \o <<"/">>)
          /\ \A k \in 1..Len(SerializedFiles) :
                 Includes(ingester.content, FileHeader(SerializedFiles[k].path))

\* C7, witness: the listing of docs, listed before Src and README.md, failed
\* for the tree and again for the content; the tree has the warning under
\* docs/ and then Src/ and README.md, the content has Src/index.js and
\* README.md and nothing of docs.
C7_ListingFailureReached ==
    /\ fetch.state = "fulfilled"
    /\ rootListing = <<Dir(docs), Dir(Src), File(README, 120)>>
    /\ FailedListings("tree") = {docs}
    /\ FailedListings("dir") = {docs}
    /\ LineAt(ingester.tree, DirLine(docs) \o WarningText(docs)) = 0
    /\ LineAt(ingester.tree, DirLine(Src)) > 0
    /\ Includes(ingester.content, FileHeader(ItemPath(Src, indexJs)))
    /\ Includes(ingester.content, FileHeader(README))
    /\ ~Includes(ingester.content, docs)

(***************************************************************************)
(* C8                                                                      *)
(***************************************************************************)

\* The remote calls of one purpose that failed.
Failed(purposes) ==
    {i \in 1..Len(calls) : calls[i].purpose \in purposes /\ calls[i].outcome = "error"}

\* The text has the advice to visit the repository of the request.
HasFallback(text, req) ==
    Includes(text,
             <<"T", "r", "y", " ", "v", "i", "s", "i", "t", "i", "n", "g", " ", "h", "t", "t", "p", "s", ":", "/", "/", "g", "i", "t", "h", "u", "b", ".", "c", "o", "m", "/">>
                 \o req.owner \o <<"/">> \o req.repo
                 \o <<" ", "d", "i", "r", "e", "c", "t", "l", "y">>)

ErrorLine ==
    <<"[", "E", "r", "r", "o", "r", " ", "l", "o", "a", "d", "i", "n", "g", " ", "f", "i", "l", "e", ":", " ", "N", "o", "t", " ", "F", "o", "u", "n", "d", "]", "\n", "\n">>

\* C8: the promise of fetchRepoData is rejected exactly when the call for the
\* repository or the call for the root listing failed, and the request is
\* then answered with an isError text that has the Try visiting
\* https://github.com/<owner>/<repo> directly advice; when the listing of a
\* subdirectory or the body of a file failed, the promise is not rejected and
\* the cycle is fulfilled or still has a call in flight; once fulfilled, a
\* file whose body failed has its header and then [Error loading file:
\* <message>], and every other file the traversal came to has its header.
C8_TopLevelRejects ==
    /\ fetch.state = "rejected" <=> Failed({"repoInfo", "root"}) # {}
    /\ (fetch.state = "rejected" /\ request # <<>>)
       => /\ response # <<>>
          /\ response[1].isError
          /\ HasFallback(response[1].text, request[1])
    /\ Failed({"tree", "dir", "file"}) # {}
       => \/ fetch.state = "fulfilled"
          \/ fetch.state = "pending" /\ pending # {}
    /\ fetch.state = "fulfilled"
       => /\ \A i \in Failed({"file"}) :
                 Includes(ingester.content, FileHeader(calls[i].path) \o ErrorLine)
          /\ \A k \in 1..Len(SerializedFiles) :
                 Includes(ingester.content, FileHeader(SerializedFiles[k].path))
          /\ request # <<>> /\ request[1].name = git_tree
             => response # <<>> /\ ~response[1].isError

\* C8, witness: the repository was had and the root listing failed; the
\* request is answered with the isError text and the advice.
C8_TopLevelRejectsReached ==
    /\ fetch.state = "rejected"
    /\ Failed({"root"}) # {}
    /\ Failed({"repoInfo"}) = {}
    /\ response # <<>>
    /\ response[1].isError
    /\ HasFallback(response[1].text, request[1])

(***************************************************************************)
(* C9                                                                      *)
(***************************************************************************)

\* new GitIngester(UrlText(host, segments), branch) gives the instance the
\* owner and the repo of the first two segments when there are two, and
\* throws Invalid GitHub URL format when there are fewer.
SegmentsTaken(hosts) ==
    \A host \in hosts, branch \in Branches :
        \A segments \in UNION {[1..n -> Segments] : n \in 0..MaxSegments} :
            New(UrlText(host, segments), branch)
            => IF Len(segments) >= 2
               THEN /\ ingester'.constructed
                    /\ ingester'.owner = segments[1]
                    /\ ingester'.repo = segments[2]
               ELSE /\ ~ingester'.constructed
                    /\ ingester'.error = InvalidUrl

\* C9, as amended: for a URL https://host/owner/repo and whatever follows,
\* whose host is github.com or ends with github.com, the constructor takes
\* the two segments after the host as owner and repo; for a URL with fewer
\* than two segments, whatever the host, it throws Invalid GitHub URL format.
C9_UrlSegments ==
    [][/\ SegmentsTaken({host \in Hosts : EndsWith(host, <<"g", "i", "t", "h", "u", "b", ".", "c", "o", "m">>)})
       /\ \A url \in Urls, branch \in Branches :
              (New(url, branch) /\ ~Includes(url, <<"g", "i", "t", "h", "u", "b", ".", "c", "o", "m", "/">>))
              => ingester'.error = InvalidUrl]_vars

\* C9, witness: the instance constructed from
\* https://www.github.com/octo/repo/github.com has the owner octo and the repo
\* repo.
C9_UrlSegmentsReached ==
    /\ ingester.constructed
    /\ ingester.url = UrlText(<<"w", "w", "w", ".", "g", "i", "t", "h", "u", "b", ".", "c", "o", "m">>, <<octo, repoName, <<"g", "i", "t", "h", "u", "b", ".", "c", "o", "m">>>>)
    /\ ingester.owner = octo
    /\ ingester.repo = repoName

\* C9, as the spec states it: whatever the host, the constructor takes the two
\* segments after it as owner and repo.
C9_UrlSegmentsAnyHost == [][SegmentsTaken(Hosts)]_vars

(***************************************************************************)
(* C10                                                                     *)
(***************************************************************************)

\* C10: at most one remote call is in flight, and it is the last one issued:
\* every call before it has had its response or its error; no listing for the
\* tree is asked for after a call of the content traversal, whose first call
\* is issued when no activation of _generateTree is left and the tree text is
\* set.
C10_OneCallInFlight ==
    /\ Cardinality(pending) <= 1
    /\ pending \subseteq {Len(calls)}
    /\ \A i \in 1..Len(calls) : i \notin pending <=> calls[i].outcome # "pending"
    /\ \A i, j \in 1..Len(calls) :
           (i < j /\ calls[i].purpose \in {"dir", "file"}) => calls[j].purpose # "tree"
    /\ (\E i \in 1..Len(calls) : calls[i].purpose \in {"dir", "file"})
       => treeStack = <<>> /\ ingester.tree # NULL

\* C10, witness: after three listings for the tree, all returned, the one
\* call in flight is a call of the content traversal.
C10_OneCallInFlightReached ==
    /\ Cardinality({i \in 1..Len(calls) : calls[i].purpose = "tree"}) = 3
    /\ pending = {Len(calls)}
    /\ calls[Len(calls)].purpose \in {"dir", "file"}
    /\ calls[Len(calls)].outcome = "pending"
    /\ \A i \in 1..(Len(calls) - 1) : calls[i].outcome # "pending"

(***************************************************************************)
(* C11                                                                     *)
(***************************************************************************)

\* The files of the repository, each with the position of its line in the
\* tree text and the position of its header in the content blob.
FilePositions ==
    LET files == FilePaths(rootListing, <<>>)
    IN {[path |-> files[k].path,
         line |-> LineAt(ingester.tree,
                         EntryLine(ParentOf(files[k].path),
                                   File(files[k].name, files[k].size))),
         header |-> IndexOfFrom(ingester.content, FileHeader(files[k].path), 0)] :
           k \in 1..Len(files)}

\* C11, as the spec states it: when the fetch cycle has completed and no remote
\* call has failed, every file has a line in the tree and a section in the
\* content blob, and of two files the one whose line comes first in the tree
\* is the one whose section comes first in the blob.
C11_SameOrder ==
    (fetch.state = "fulfilled" /\ \A i \in 1..Len(calls) : calls[i].outcome = "ok")
    => \A f, g \in FilePositions :
           /\ f.line # -1
           /\ f.header # -1
           /\ f.line < g.line => f.header < g.header

(***************************************************************************)
(* C12                                                                     *)
(***************************************************************************)

\* C12, as the spec states it: on an instance whose fetch cycle has completed,
\* getTree() returns the tree text the traversal built and getContent() without
\* paths returns the content blob it built, whatever they hold, and neither
\* returns its 'not available' text.
C12_GettersReturnBuilt ==
    fetch.state = "fulfilled"
    => \A k \in 1..Len(result) :
           /\ result[k].op = "getTree"
              => result[k].value = ingester.tree /\ result[k].value # TreeNotAvailable
           /\ (result[k].op = "getContent" /\ result[k].filePaths = NoArgument)
              => /\ result[k].value = ingester.content
                 /\ result[k].value # ContentNotAvailable

====
